---- MODULE Spec2Model ----
(***************************************************************************)
(* Model of example_xla.py: the multi-process launcher (mp_main, _fn), the *)
(* per-process pipeline (main): setup_model_parallel, load, the warmup and *)
(* timed generation calls and the latency report.                          *)
(***************************************************************************)
EXTENDS Integers, Sequences, FiniteSets

\* ------------------------------------------------------------------ bounds
MaxDevices == 2     \* most accelerator devices visible to xmp.spawn
MaxTimes == 2       \* largest n_times argument
MaxLayers == 2      \* largest n_layers (arguments and params.json)

Procs == 0 .. MaxDevices - 1

\* ------------------------------------------------------- files and sorting
\* A shard file "<stem>.pth"; the stem is its sequence of characters (digits).
ShardFiles == { [stem |-> s, ext |-> "pth"] : s \in {<<1>>, <<1, 0>>, <<2>>} }
ParamsFile == [stem |-> <<>>, ext |-> "json"]

\* Path.__lt__ on files of one directory: lexicographic order of the names.
RECURSIVE LexLess(_, _)
LexLess(a, b) ==
    IF a = <<>> THEN b # <<>>
    ELSE IF b = <<>> THEN FALSE
    ELSE IF a[1] # b[1] THEN a[1] < b[1]
    ELSE LexLess(Tail(a), Tail(b))

\* Path(ckpt_dir).glob("*.pth"): the shard files of the directory
Glob(files) == { f \in files : f.ext = "pth" }

\* the orders in which the directory listing may yield the set S
Listings(S) ==
    { l \in [1 .. Cardinality(S) -> S] :
        \A i, j \in 1 .. Cardinality(S) : i # j => l[i] # l[j] }

RECURSIVE Insert(_, _)
Insert(x, s) ==
    IF s = <<>> THEN <<x>>
    ELSE IF LexLess(x.stem, s[1].stem) THEN <<x>> \o s
    ELSE <<s[1]>> \o Insert(x, Tail(s))

RECURSIVE SortedRec(_)
SortedRec(s) == IF s = <<>> THEN <<>> ELSE Insert(s[1], SortedRec(Tail(s)))

\* a loader that keeps the listing order
SortedAsListed(listing) == listing

\* sorted(...) of line 59
Sorted(listing) == SortedRec(listing)

\* ------------------------------------------------------------ configuration
VARIABLES
    mp,            \* mp_main's multi-process toggle
    USE_XLA,       \* environment toggle, line 19
    USE_CUDA,      \* environment toggle, line 18
    nDev,          \* devices visible to the accelerator runtime
    ckpt_dir,      \* [given, files, params]: the checkpoint directory argument
    args,          \* [dim, n_layers, n_heads, quant, n_times]
    launcher,      \* position of mp_main
    pc,            \* position of each pipeline process in main
    err,           \* the exception that ended a process, "" if none
    errmsg,        \* the numbers an assertion message names
    rank, world_size, seed,
    stdout,        \* what sys.stdout of the process is bound to
    redirects,     \* how often the process rebound sys.stdout
    printed,       \* every print call: [item, call, idx, to]
    log,           \* the operations the process performed, in order
    precision,     \* process-global default tensor type
    precision0,    \* default tensor type when load was entered
    shardsRead,    \* shard files read by torch.load
    model,         \* the Transformer built by load
    calls,         \* number of generate calls made
    iter,          \* iterations of main's timed loop completed
    results,       \* value of main's variable results
    latency_list, per_token_latency_list,
    report         \* the two means printed by main

cfgvars == <<mp, USE_XLA, USE_CUDA, nDev, ckpt_dir, args>>
procvars == <<pc, err, errmsg, rank, world_size, seed, stdout, redirects,
              printed, log, precision, precision0, shardsRead, model, calls,
              iter, results, latency_list, per_token_latency_list, report>>
vars == <<cfgvars, launcher, procvars>>

\* ------------------------------------------------------------- initial state
Device == "xla"                       \* xm.xla_device()
Tokenizer == [n_words |-> 32000]      \* Tokenizer(model_path=tokenizer_path)
Prompts == << "I believe the meaning of life is" >>

NoArgs == [dim |-> 0, n_layers |-> 0, n_heads |-> 0, quant |-> FALSE,
           vocab_size |-> 0]
NoModel == [built |-> FALSE, args |-> NoArgs, weights |-> {}, loc |-> "none",
            cache_kvs |-> <<>>]
NoReport == [mean |-> <<0, 0>>, per_token |-> <<0, 0>>, printed |-> FALSE]

\* params.json of a checkpoint directory: a flat {dim, n_layers, n_heads, quant}
ParamsJson(L) == [dim |-> 512, n_layers |-> L, n_heads |-> 8, quant |-> TRUE]

Init ==
    /\ mp \in BOOLEAN
    /\ USE_XLA \in BOOLEAN
    /\ USE_CUDA \in BOOLEAN
    /\ nDev \in 1 .. MaxDevices
    /\ \/ /\ ckpt_dir = [given |-> FALSE, files |-> {}, params |-> ParamsJson(1)]
          /\ args \in { [dim |-> 256, n_layers |-> L, n_heads |-> 4,
                         quant |-> FALSE, n_times |-> n] :
                           L \in 1 .. MaxLayers, n \in 0 .. MaxTimes }
       \/ /\ ckpt_dir \in { [given |-> TRUE, files |-> S \cup {ParamsFile},
                             params |-> ParamsJson(L)] :
                               S \in SUBSET ShardFiles, L \in 1 .. MaxLayers }
          /\ args \in { [dim |-> 4096, n_layers |-> 32, n_heads |-> 32,
                         quant |-> FALSE, n_times |-> n] : n \in 0 .. MaxTimes }
    /\ launcher = "start"
    /\ pc = [p \in Procs |-> "idle"]
    /\ err = [p \in Procs |-> ""]
    /\ errmsg = [p \in Procs |-> <<>>]
    /\ rank = [p \in Procs |-> 0]
    /\ world_size = [p \in Procs |-> 0]
    /\ seed = [p \in Procs |-> [torch |-> 0, xla |-> 0]]
    /\ stdout = [p \in Procs |-> "tty"]
    /\ redirects = [p \in Procs |-> 0]
    /\ printed = [p \in Procs |-> <<>>]
    /\ log = [p \in Procs |-> <<>>]
    /\ precision = [p \in Procs |-> "float"]
    /\ precision0 = [p \in Procs |-> "float"]
    /\ shardsRead = [p \in Procs |-> {}]
    /\ model = [p \in Procs |-> NoModel]
    /\ calls = [p \in Procs |-> 0]
    /\ iter = [p \in Procs |-> 0]
    /\ results = [p \in Procs |-> <<>>]
    /\ latency_list = [p \in Procs |-> <<>>]
    /\ per_token_latency_list = [p \in Procs |-> <<>>]
    /\ report = [p \in Procs |-> NoReport]

\* ------------------------------------------------------------------ launcher
\* mp_main, lines 202-209: spawn one child per device, or call main in place
Launch ==
    /\ launcher = "start"
    /\ IF mp /\ USE_XLA
         THEN /\ launcher' = "spawned"
              /\ pc' = [p \in Procs |-> IF p < nDev THEN "main" ELSE "idle"]
         ELSE /\ launcher' = "inproc"
              /\ pc' = [pc EXCEPT ![0] = "main"]
    /\ UNCHANGED <<cfgvars, err, errmsg, rank, world_size, seed, stdout,
                   redirects, printed, log, precision, precision0, shardsRead,
                   model, calls, iter, results, latency_list,
                   per_token_latency_list, report>>

Ended(p) == pc[p] \in {"done", "failed"}

\* xmp.spawn joins its children; main returns or raises in the caller
Return ==
    /\ launcher \in {"spawned", "inproc"}
    /\ \A p \in Procs : pc[p] # "idle" => Ended(p)
    /\ launcher' = "returned"
    /\ UNCHANGED <<cfgvars, procvars>>

\* ------------------------------------------------------ setup_model_parallel
\* the model-parallel group of the runtime: every spawned child is one member
get_model_parallel_rank(p) == p
get_model_parallel_world_size == IF launcher = "spawned" THEN nDev ELSE 1

\* lines 30-39; the name xm is bound only when USE_XLA (lines 25-27)
SetupModelParallel(p) ==
    /\ pc[p] = "main"
    /\ IF USE_XLA
         THEN /\ rank' = [rank EXCEPT ![p] = get_model_parallel_rank(p)]
              /\ world_size' =
                   [world_size EXCEPT ![p] = get_model_parallel_world_size]
              /\ seed' = [seed EXCEPT ![p] = [torch |-> 1, xla |-> 1]]
              /\ log' = [log EXCEPT ![p] =
                    @ \o <<"manual_seed", "xla_device", "set_rng_state">>]
              /\ pc' = [pc EXCEPT ![p] = "resolved"]
              /\ err' = err
         ELSE /\ seed' = [seed EXCEPT ![p].torch = 1]
              /\ log' = [log EXCEPT ![p] = @ \o <<"manual_seed">>]
              /\ pc' = [pc EXCEPT ![p] = "failed"]
              /\ err' = [err EXCEPT ![p] = "NameError"]
              /\ UNCHANGED <<rank, world_size>>
    /\ UNCHANGED <<cfgvars, launcher, errmsg, stdout, redirects, printed,
                   precision, precision0, shardsRead, model, calls, iter, results,
                   latency_list, per_token_latency_list, report>>

\* a child that silences every rank but the first two
RedirectAboveOne(r, out) == IF r > 1 THEN "devnull" ELSE out

\* lines 111-112: sys.stdout = open(os.devnull, "w") for rank > 0
RedirectTarget(r, out) == IF r > 0 THEN "devnull" ELSE out

RedirectStdout(p) ==
    /\ pc[p] = "resolved"
    /\ stdout' = [stdout EXCEPT ![p] = RedirectTarget(rank[p], @)]
    /\ redirects' = [redirects EXCEPT ![p] = IF rank[p] > 0 THEN @ + 1 ELSE @]
    /\ log' = [log EXCEPT ![p] =
                 IF rank[p] > 0 THEN Append(@, "redirect_stdout") ELSE @]
    /\ pc' = [pc EXCEPT ![p] = "redirected"]
    /\ UNCHANGED <<cfgvars, launcher, err, errmsg, rank, world_size, seed,
                   printed, precision, precision0, shardsRead, model, calls, iter,
                   results, latency_list, per_token_latency_list, report>>

\* ---------------------------------------------------------------------- load
\* print(...) on the stream sys.stdout is bound to
Emit(out, to, item, call, idx) ==
    Append(out, [item |-> item, call |-> call, idx |-> idx, to |-> to])

\* an exception leaves every later statement of load unexecuted
Raise(ls, e) == [ls EXCEPT !.status = e]

\* the places where the collaborators (model construction, weight loading,
\* device transfer) may raise once load has come to them, every statement
\* before the model construction having passed with result pre; i is the
\* layer of a cache migration
NoFailure == [at |-> "none", i |-> 0]
FailPoints(pre, dir) ==
    IF pre.status # "ok" THEN { NoFailure }
    ELSE { NoFailure }
         \cup { [at |-> a, i |-> 0] : a \in {"construct", "model_to"} }
         \cup (IF dir.given THEN { [at |-> "load_state_dict", i |-> 0] }
                            ELSE {})
         \cup { [at |-> "cache_to", i |-> i] : i \in 1 .. pre.model_args.n_layers }

\* lines 55-56, entered with the variables of process p
LoadEnter(p) ==
    [ status |-> "ok", errmsg |-> <<>>,
      log |-> log[p] \o <<"xla_device", "load">>,
      printed |-> Emit(printed[p], stdout[p], "Loading", 0, 0),
      precision |-> precision[p], shardsRead |-> shardsRead[p],
      checkpoints |-> <<>>, checkpoint |-> {}, params |-> NoArgs,
      model_args |-> NoArgs, model |-> NoModel ]

\* a loader that accepts any number of shards
AssertNothing(ls, ws) == [ls EXCEPT !.log = Append(@, "assert")]

\* lines 60-62: assert world_size == len(checkpoints), message with both
AssertShardCount(ls, ws) ==
    IF ws = Len(ls.checkpoints)
      THEN [ls EXCEPT !.log = Append(@, "assert")]
      ELSE [ls EXCEPT !.log = Append(@, "assert"),
                      !.status = "AssertionError",
                      !.errmsg = <<Len(ls.checkpoints), ws>>]

\* lines 63-64: checkpoint = torch.load(checkpoints[rank], map_location="cpu")
LoadShard(ls, r) ==
    IF ls.status # "ok" THEN ls
    ELSE IF r + 1 > Len(ls.checkpoints) THEN Raise(ls, "IndexError")
    ELSE [ls EXCEPT !.shardsRead = @ \cup {ls.checkpoints[r + 1]},
                    !.checkpoint = {ls.checkpoints[r + 1]},
                    !.log = Append(@, "torch_load")]

\* lines 65-66: params = json.loads(params.json)
ReadParams(ls, dir) ==
    IF ls.status # "ok" THEN ls
    ELSE [ls EXCEPT !.params = [dim |-> dir.params.dim,
                                 n_layers |-> dir.params.n_layers,
                                 n_heads |-> dir.params.n_heads,
                                 quant |-> dir.params.quant,
                                 vocab_size |-> 0],
                    !.log = Append(@, "read_params")]

\* lines 57-73: the checkpoint branch and the argument branch
LoadCheckpoint(ls, dir, listing, r, ws, a) ==
    IF dir.given
      THEN ReadParams(
             LoadShard(
               AssertShardCount(
                 [ls EXCEPT !.checkpoints = Sorted(listing),
                            !.log = Append(@, "glob_sorted")], ws), r), dir)
      ELSE [ls EXCEPT !.params = [dim |-> a.dim, n_layers |-> a.n_layers,
                                   n_heads |-> a.n_heads, quant |-> a.quant,
                                   vocab_size |-> 0],
                      !.log = Append(@, "params_from_args")]

\* lines 75-77: ModelArgs(max_seq_len, max_batch_size, **params); the
\* dataclass leaves vocab_size at its default
BuildModelArgs(ls) ==
    IF ls.status # "ok" THEN ls
    ELSE [ls EXCEPT !.model_args = [ls.params EXCEPT !.vocab_size = -1],
                    !.log = Append(@, "model_args")]

\* a loader that forgets the tokenizer's vocabulary size
KeepVocabSize(ls) ==
    IF ls.status # "ok" THEN ls
    ELSE [ls EXCEPT !.log = @ \o <<"tokenizer", "set_vocab_size">>]

\* lines 78-79: model_args.vocab_size = tokenizer.n_words
SetVocabSize(ls) ==
    IF ls.status # "ok" THEN ls
    ELSE [ls EXCEPT !.model_args.vocab_size = Tokenizer.n_words,
                    !.log = @ \o <<"tokenizer", "set_vocab_size">>]

\* lines 80-83: torch.set_default_tensor_type(half or bfloat16)
SetPrecision(ls) ==
    IF ls.status # "ok" THEN ls
    ELSE [ls EXCEPT !.precision = IF USE_CUDA THEN "half" ELSE "bfloat16",
                    !.log = Append(@, "set_precision")]

\* where a tensor created under the default tensor type is allocated
AllocLoc(prec) == IF prec = "half" THEN "cuda" ELSE "cpu"

\* Transformer.cache_kvs: one (key cache, value cache) pair per layer
NewCacheKvs(n, loc) == [i \in 1 .. n |-> << loc, loc >>]

\* line 84: model = Transformer(model_args)
Construct(ls, fail) ==
    IF ls.status # "ok" THEN ls
    ELSE IF fail.at = "construct" THEN Raise(ls, "ConstructError")
    ELSE [ls EXCEPT
            !.model = [built |-> TRUE, args |-> ls.model_args, weights |-> {},
                       loc |-> AllocLoc(ls.precision),
                       cache_kvs |-> NewCacheKvs(ls.model_args.n_layers,
                                                 AllocLoc(ls.precision))],
            !.log = Append(@, "construct")]

\* lines 85-86: model.load_state_dict(checkpoint, strict=False) if ckpt_dir
LoadStateDict(ls, dir, fail) ==
    IF ls.status # "ok" \/ ~dir.given THEN ls
    ELSE IF fail.at = "load_state_dict" THEN Raise(ls, "LoadError")
    ELSE [ls EXCEPT !.model.weights = ls.checkpoint,
                    !.log = Append(@, "load_state_dict")]

\* line 87: model = model.to(device); cache_kvs is a plain list and stays
ModelTo(ls, fail) ==
    IF ls.status # "ok" THEN ls
    ELSE IF fail.at = "model_to" THEN Raise(ls, "TransferError")
    ELSE [ls EXCEPT !.model.loc = Device, !.log = Append(@, "model_to")]

\* a migration that moves the key cache only
MigrateKeyOnly(pair, device) == [pair EXCEPT ![1] = device]

\* line 89: tuple(t.to(device) for t in model.cache_kvs[i])
MigratePair(pair, device) == [k \in 1 .. Len(pair) |-> device]

\* lines 88-89: for i in range(len(model.cache_kvs))
RECURSIVE MigrateCaches(_, _, _)
MigrateCaches(ls, i, fail) ==
    IF ls.status # "ok" \/ i > Len(ls.model.cache_kvs) THEN ls
    ELSE IF fail.at = "cache_to" /\ fail.i = i THEN Raise(ls, "TransferError")
    ELSE MigrateCaches(
           [ls EXCEPT !.model.cache_kvs[i] = MigratePair(@, Device),
                      !.log = Append(@, "cache_to")], i + 1, fail)

\* line 90: torch.set_default_tensor_type(torch.FloatTensor)
RestorePrecision(ls) ==
    IF ls.status # "ok" THEN ls
    ELSE [ls EXCEPT !.precision = "float",
                    !.log = Append(@, "restore_precision")]

\* lines 92-94: generator = LLaMA(model, tokenizer); print; return
LoadReturn(ls, to) ==
    IF ls.status # "ok" THEN ls
    ELSE [ls EXCEPT !.printed = Emit(@, to, "Loaded", 0, 0),
                    !.log = Append(@, "load_return")]

\* main, lines 114-116: generator = load(...); lines 55-94 statement after
\* statement, each intermediate state of load bound to a name
Load(p) ==
    /\ pc[p] = "redirected"
    /\ \E listing \in Listings(Glob(ckpt_dir.files)) :
       \E loaded \in { LoadCheckpoint(LoadEnter(p), ckpt_dir, listing,
                                      rank[p], world_size[p], args) } :
       \E pre \in { SetPrecision(SetVocabSize(BuildModelArgs(loaded))) } :
       \E fail \in FailPoints(pre, ckpt_dir) :
       \E built \in { LoadStateDict(Construct(pre, fail), ckpt_dir, fail) } :
       \E moved \in { MigrateCaches(ModelTo(built, fail), 1, fail) } :
       \E ls \in { LoadReturn(RestorePrecision(moved), stdout[p]) } :
             /\ pc' = [pc EXCEPT ![p] =
                         IF ls.status = "ok" THEN "loaded" ELSE "failed"]
             /\ err' = [err EXCEPT ![p] =
                         IF ls.status = "ok" THEN @ ELSE ls.status]
             /\ errmsg' = [errmsg EXCEPT ![p] = ls.errmsg]
             /\ printed' = [printed EXCEPT ![p] = ls.printed]
             /\ log' = [log EXCEPT ![p] = ls.log]
             /\ precision0' = [precision0 EXCEPT ![p] = precision[p]]
             /\ precision' = [precision EXCEPT ![p] = ls.precision]
             /\ shardsRead' = [shardsRead EXCEPT ![p] = ls.shardsRead]
             /\ model' = [model EXCEPT ![p] = ls.model]
    /\ UNCHANGED <<cfgvars, launcher, rank, world_size, seed, stdout,
                   redirects, calls, iter, results, latency_list,
                   per_token_latency_list, report>>

\* ---------------------------------------------------------------- generation
\* wall-clock time of a call and time per generated token, as measured by the
\* generation handle: the warmup call (call 0) may or may not pay the one-time
\* initialisation cost; the timings of the later calls differ from call to call
GenTimings(call) ==
    IF call = 0
      THEN { [lat |-> 2, tok |-> 1], [lat |-> 9, tok |-> 7] }
      ELSE { [lat |-> 2 + call, tok |-> call] }

\* every generate call appends one entry to a latency list of the handle
RecordLatency(lst, t) == Append(lst, t)

\* generator.generate(prompts, 256, device, temperature, top_p): one string
\* per prompt, in prompt order; call is the number of the call
GenerateResults(call) ==
    [i \in 1 .. Len(Prompts) |-> [call |-> call, prompt |-> i]]

\* lines 160-162: for result in results: print(result); print(separator)
RECURSIVE PrintResults(_, _, _)
PrintResults(out, to, res) ==
    IF res = <<>> THEN out
    ELSE PrintResults(
           Emit(Emit(out, to, "result", res[1].call, res[1].prompt),
                to, "separator", res[1].call, res[1].prompt),
           to, Tail(res))

\* a warmup that prints its results like a timed call
WarmupPrinting(p) ==
    /\ pc[p] = "loaded"
    /\ \E t \in GenTimings(calls[p]) :
         /\ latency_list' = [latency_list EXCEPT ![p] = RecordLatency(@, t.lat)]
         /\ per_token_latency_list' =
              [per_token_latency_list EXCEPT ![p] = RecordLatency(@, t.tok)]
    /\ results' = [results EXCEPT ![p] = GenerateResults(calls[p])]
    /\ printed' = [printed EXCEPT ![p] =
                     PrintResults(@, stdout[p], GenerateResults(calls[p]))]
    /\ calls' = [calls EXCEPT ![p] = @ + 1]
    /\ log' = [log EXCEPT ![p] = Append(@, "generate")]
    /\ pc' = [pc EXCEPT ![p] = "running"]
    /\ UNCHANGED <<cfgvars, launcher, err, errmsg, rank, world_size, seed,
                   stdout, redirects, precision, precision0,
                   shardsRead, model, iter, report>>

\* a warmup that does not wait for load
WarmupEarly(p) ==
    /\ pc[p] \in {"redirected", "loaded"}
    /\ \E t \in GenTimings(calls[p]) :
         /\ latency_list' = [latency_list EXCEPT ![p] = RecordLatency(@, t.lat)]
         /\ per_token_latency_list' =
              [per_token_latency_list EXCEPT ![p] = RecordLatency(@, t.tok)]
    /\ results' = [results EXCEPT ![p] = GenerateResults(calls[p])]
    /\ calls' = [calls EXCEPT ![p] = @ + 1]
    /\ log' = [log EXCEPT ![p] = Append(@, "generate")]
    /\ pc' = [pc EXCEPT ![p] = "running"]
    /\ UNCHANGED <<cfgvars, launcher, err, errmsg, rank, world_size, seed,
                   stdout, redirects, printed, precision, precision0,
                   shardsRead, model, iter, report>>

\* lines 146-151: the warmup call; its results are only assigned
Warmup(p) ==
    /\ pc[p] = "loaded"
    /\ \E t \in GenTimings(calls[p]) :
         /\ latency_list' = [latency_list EXCEPT ![p] = RecordLatency(@, t.lat)]
         /\ per_token_latency_list' =
              [per_token_latency_list EXCEPT ![p] = RecordLatency(@, t.tok)]
    /\ results' = [results EXCEPT ![p] = GenerateResults(calls[p])]
    /\ calls' = [calls EXCEPT ![p] = @ + 1]
    /\ log' = [log EXCEPT ![p] = Append(@, "generate")]
    /\ pc' = [pc EXCEPT ![p] = "running"]
    /\ UNCHANGED <<cfgvars, launcher, err, errmsg, rank, world_size, seed,
                   stdout, redirects, printed, precision, precision0,
                   shardsRead, model, iter, report>>

\* lines 152-162: one iteration of for _ in range(n_times)
TimedCall(p) ==
    /\ pc[p] = "running"
    /\ iter[p] < args.n_times
    /\ \E t \in GenTimings(calls[p]) :
         /\ latency_list' = [latency_list EXCEPT ![p] = RecordLatency(@, t.lat)]
         /\ per_token_latency_list' =
              [per_token_latency_list EXCEPT ![p] = RecordLatency(@, t.tok)]
    /\ results' = [results EXCEPT ![p] = GenerateResults(calls[p])]
    /\ printed' = [printed EXCEPT ![p] =
                     PrintResults(@, stdout[p], GenerateResults(calls[p]))]
    /\ calls' = [calls EXCEPT ![p] = @ + 1]
    /\ iter' = [iter EXCEPT ![p] = @ + 1]
    /\ log' = [log EXCEPT ![p] = Append(@, "generate")]
    /\ UNCHANGED <<cfgvars, launcher, pc, err, errmsg, rank, world_size, seed,
                   stdout, redirects, precision, precision0, shardsRead,
                   model, report>>

RECURSIVE SumSeq(_)
SumSeq(s) == IF s = <<>> THEN 0 ELSE s[1] + SumSeq(Tail(s))

\* a report that averages the whole record
MeanOfAll(lst, n) == << SumSeq(lst), n >>

\* line 166: sum(latency_list[1:]) / n_times, as numerator and denominator
MeanLatency(lst, n) == << SumSeq(SubSeq(lst, 2, Len(lst))), n >>

\* line 167: sum(per_token_latency_list[1:]) / n_times * 1000
MeanPerToken(lst, n) == << SumSeq(SubSeq(lst, 2, Len(lst))) * 1000, n >>

\* lines 163-167: the report; the division raises when n_times is 0
Report(p) ==
    /\ pc[p] = "running"
    /\ iter[p] >= args.n_times
    /\ LET head == Emit(Emit(Emit(printed[p], stdout[p], "env_info", 0, 0),
                             stdout[p], "env_flags", 0, 0),
                        stdout[p], "run_info", 0, 0)
       IN IF args.n_times = 0
            THEN /\ printed' = [printed EXCEPT ![p] = head]
                 /\ pc' = [pc EXCEPT ![p] = "failed"]
                 /\ err' = [err EXCEPT ![p] = "ZeroDivisionError"]
                 /\ report' = report
            ELSE /\ printed' = [printed EXCEPT ![p] =
                       Emit(Emit(head, stdout[p], "mean_latency", 0, 0),
                            stdout[p], "mean_per_token", 0, 0)]
                 /\ pc' = [pc EXCEPT ![p] = "done"]
                 /\ err' = err
                 /\ report' = [report EXCEPT ![p] =
                       [mean |-> MeanLatency(latency_list[p], args.n_times),
                        per_token |-> MeanPerToken(per_token_latency_list[p],
                                                   args.n_times),
                        printed |-> TRUE]]
    /\ log' = [log EXCEPT ![p] = Append(@, "report")]
    /\ UNCHANGED <<cfgvars, launcher, errmsg, rank, world_size, seed, stdout,
                   redirects, precision, precision0, shardsRead, model, calls,
                   iter, results, latency_list, per_token_latency_list>>

\* ------------------------------------------------------------- specification
Next ==
    \/ Launch
    \/ Return
    \/ \E p \in Procs : SetupModelParallel(p)
    \/ \E p \in Procs : RedirectStdout(p)
    \/ \E p \in Procs : Load(p)
    \/ \E p \in Procs : Warmup(p)
    \/ \E p \in Procs : TimedCall(p)
    \/ \E p \in Procs : Report(p)

Spec == Init /\ [][Next]_vars

\* ------------------------------------------------------------------ properties
Has(lg, e) == \E i \in 1 .. Len(lg) : lg[i] = e
Count(lg, e) == Cardinality({ i \in 1 .. Len(lg) : lg[i] = e })
\* every occurrence of b in lg comes after an occurrence of a
Precedes(lg, a, b) ==
    \A j \in 1 .. Len(lg) : lg[j] = b => \E i \in 1 .. j - 1 : lg[i] = a
ShardCount == Cardinality(Glob(ckpt_dir.files))
LoadExited(p) == Has(log[p], "load")
LoadReturned(p) == Has(log[p], "load_return")
RunEnded(p) ==
    pc[p] = "done" \/ (pc[p] = "failed" /\ err[p] = "ZeroDivisionError")

\* C1: with a checkpoint directory of k shard files, load with world_size = k
\* passes the shard-count check and goes on to read its shard; with
\* world_size # k it fails with an AssertionError whose message names k and
\* world_size, and the process has then constructed no model, read no shard
\* and moved or allocated nothing on a device.
C1_ShardCountCheck ==
    \A p \in Procs :
      (LoadExited(p) /\ ckpt_dir.given) =>
        IF world_size[p] = ShardCount
          THEN /\ err[p] # "AssertionError"
               /\ Has(log[p], "torch_load")
          ELSE /\ pc[p] = "failed"
               /\ err[p] = "AssertionError"
               /\ errmsg[p] = << ShardCount, world_size[p] >>
               /\ model[p] = NoModel
               /\ shardsRead[p] = {}
               /\ \A e \in {"torch_load", "construct", "load_state_dict",
                            "model_to", "cache_to", "set_precision"} :
                     ~Has(log[p], e)

C1_Witness ==
    \E p \in Procs :
      /\ ckpt_dir.given /\ LoadExited(p)
      /\ ShardCount = 2 /\ world_size[p] = 1
      /\ err[p] = "AssertionError"

\* C2: whenever load has exited, normally or by a failure of construction,
\* weight loading or a device transfer, the default tensor type of the
\* process is the one in effect when load was called.
C2_PrecisionRestored ==
    \A p \in Procs : LoadExited(p) => precision[p] = precision0[p]

RECURSIVE SumIdx(_, _, _)
SumIdx(lst, lo, hi) == IF lo > hi THEN 0 ELSE lst[lo] + SumIdx(lst, lo + 1, hi)

\* C3: a run that reaches the report has made exactly n_times + 1 generate
\* calls, both latency lists have n_times + 1 entries, and the means it
\* reports are the sums of the entries 1..n_times (the warmup entry 0 left
\* out) over n_times, the per-token mean scaled to milliseconds.
C3_CallsAndMeans ==
    \A p \in Procs :
      RunEnded(p) =>
        /\ calls[p] = args.n_times + 1
        /\ Count(log[p], "generate") = args.n_times + 1
        /\ Len(latency_list[p]) = args.n_times + 1
        /\ Len(per_token_latency_list[p]) = args.n_times + 1
        /\ (pc[p] = "done") = report[p].printed
        /\ report[p].printed =>
             /\ report[p].mean =
                  << SumIdx(latency_list[p], 2, args.n_times + 1),
                     args.n_times >>
             /\ report[p].per_token =
                  << 1000 * SumIdx(per_token_latency_list[p], 2,
                                   args.n_times + 1), args.n_times >>

C3_Witness ==
    \E p \in Procs :
      /\ pc[p] = "done" /\ args.n_times >= 2
      /\ latency_list[p][1] # latency_list[p][2]

\* C4: the only shard a process reads is the file at index rank of the
\* lexicographically sorted shard files: the one with exactly rank shard
\* files ordered before it, whatever order the directory listing had.
C4_ShardOfRank ==
    \A p \in Procs :
      /\ ~ckpt_dir.given => shardsRead[p] = {}
      /\ Has(log[p], "torch_load") => shardsRead[p] # {}
      /\ \A f \in shardsRead[p] :
           /\ f \in Glob(ckpt_dir.files)
           /\ Cardinality({ g \in Glob(ckpt_dir.files) :
                              LexLess(g.stem, f.stem) }) = rank[p]
      /\ Cardinality(shardsRead[p]) <= 1

C4_Witness ==
    \E p \in Procs :
      /\ rank[p] = 1
      /\ shardsRead[p] = { [stem |-> <<2>>, ext |-> "pth"] }
      /\ [stem |-> <<1, 0>>, ext |-> "pth"] \in ckpt_dir.files

ResultPrints(p) ==
    SelectSeq(printed[p], LAMBDA r : r.item = "result")

\* the results of the timed calls 1..n, call after call, prompt after prompt
RECURSIVE TimedResults(_)
TimedResults(n) ==
    IF n = 0 THEN <<>>
    ELSE TimedResults(n - 1)
           \o [i \in 1 .. Len(Prompts) |->
                 [item |-> "result", call |-> n, idx |-> i, to |-> "x"]]

\* C5: no result of the warmup call (call 0) is ever printed; what is
\* printed is exactly the result batches of the timed calls made so far, in
\* call order and within a batch in prompt order, one per prompt; at the end
\* of the run these are n_times batches, also for n_times = 0.
C5_WarmupNotSurfaced ==
    \A p \in Procs :
      /\ \A i \in 1 .. Len(printed[p]) :
           printed[p][i].item \in {"result", "separator"}
             => printed[p][i].call # 0
      /\ Len(ResultPrints(p)) = iter[p] * Len(Prompts)
      /\ \A i \in 1 .. Len(ResultPrints(p)) :
           /\ ResultPrints(p)[i].call = TimedResults(iter[p])[i].call
           /\ ResultPrints(p)[i].idx = TimedResults(iter[p])[i].idx
      /\ pc[p] = "running" => calls[p] = iter[p] + 1
      /\ RunEnded(p) => iter[p] = args.n_times

C5_Witness ==
    \E p \in Procs :
      pc[p] = "done" /\ iter[p] >= 2 /\ Len(ResultPrints(p)) >= 2

EnvFailure(p) ==
    err[p] \in {"AssertionError", "IndexError", "ConstructError", "LoadError",
                "TransferError"}
Started(p) == pc[p] # "idle"

\* C6: when mp_main has returned: if mp and USE_XLA, exactly the nDev
\* children ran, one per device; otherwise only the calling process ran the
\* pipeline, once; and every process that ran, unless the shard-count check
\* or a collaborator failed in it, went through topology resolution, load
\* and all n_times + 1 generation calls with the launcher's configuration.
C6_LaunchRunsPipeline ==
    launcher = "returned" =>
      /\ \A p \in Procs :
           Started(p) <=> IF mp /\ USE_XLA THEN p < nDev ELSE p = 0
      /\ \A p \in Procs :
           (Started(p) /\ ~EnvFailure(p)) =>
             /\ Has(log[p], "set_rng_state")
             /\ LoadReturned(p)
             /\ Count(log[p], "generate") = args.n_times + 1

TtyPrints(p) == SelectSeq(printed[p], LAMBDA r : r.to = "tty")

\* C7: a process of rank > 0 has written nothing to the real standard
\* output; from its redirection on its sys.stdout is the discard stream, it
\* redirected exactly once and before its first print call; rank 0 never
\* redirects; so at most one process, of rank 0, has written the results
\* and the latency report.
C7_OnlyRankZeroPrints ==
    /\ \A p \in Procs :
         /\ TtyPrints(p) # <<>> => (rank[p] = 0 /\ redirects[p] = 0)
         /\ redirects[p] <= 1
         /\ (pc[p] \notin {"idle", "main", "resolved"} /\ err[p] # "NameError")
              => /\ stdout[p] = (IF rank[p] > 0 THEN "devnull" ELSE "tty")
                 /\ redirects[p] = (IF rank[p] > 0 THEN 1 ELSE 0)
         /\ Precedes(log[p], "redirect_stdout", "load") \/ rank[p] = 0
         /\ \A i \in 1 .. Len(printed[p]) :
              printed[p][i].to = stdout[p]
    /\ Cardinality({ p \in Procs : TtyPrints(p) # <<>> }) <= 1

C7_Witness ==
    \E p, q \in Procs :
      /\ rank[p] > 0 /\ pc[p] = "done" /\ Len(printed[p]) > 2
      /\ rank[q] = 0 /\ pc[q] = "done" /\ TtyPrints(q) = printed[q]

\* C8: once load has returned, the model is on the target device and the
\* model has one cache pair per layer, each a pair whose two tensors are on
\* the target device.
C8_CachesOnDevice ==
    \A p \in Procs :
      LoadReturned(p) =>
        /\ model[p].built /\ model[p].loc = Device
        /\ Len(model[p].cache_kvs) = model[p].args.n_layers
        /\ \A i \in 1 .. Len(model[p].cache_kvs) :
             /\ Len(model[p].cache_kvs[i]) = 2
             /\ \A k \in 1 .. 2 : model[p].cache_kvs[i][k] = Device

C8_Witness ==
    \E p \in Procs :
      LoadReturned(p) /\ Len(model[p].cache_kvs) >= 2 /\ USE_CUDA

\* C9: without a checkpoint directory load reads no shard and applies no
\* weights, the model is built from the dim, n_layers, n_heads and quant
\* arguments, and its vocab_size is the tokenizer's n_words, set after the
\* ModelArgs are built and before the model is constructed.
C9_ManifestFromArgs ==
    \A p \in Procs :
      (LoadExited(p) /\ ~ckpt_dir.given) =>
        /\ shardsRead[p] = {}
        /\ \A e \in {"glob_sorted", "assert", "torch_load", "read_params",
                     "load_state_dict"} : ~Has(log[p], e)
        /\ Has(log[p], "params_from_args")
        /\ Precedes(log[p], "model_args", "set_vocab_size")
        /\ Precedes(log[p], "set_vocab_size", "construct")
        /\ model[p].built =>
             /\ model[p].weights = {}
             /\ model[p].args =
                  [dim |-> args.dim, n_layers |-> args.n_layers,
                   n_heads |-> args.n_heads, quant |-> args.quant,
                   vocab_size |-> Tokenizer.n_words]

C9_Witness ==
    \E p \in Procs :
      ~ckpt_dir.given /\ LoadReturned(p) /\ args.n_layers >= 2

\* C10: in every process the stages happen in the order topology
\* resolution (seed set), load (shard-count check and shard read before the
\* model is constructed; construction, weights, model transfer, cache
\* transfer, return), generation: no generate call before load has returned,
\* and the seed is set, to the same value in every process, before any
\* generate call.
C10_StageOrder ==
    \A p \in Procs :
      /\ Precedes(log[p], "manual_seed", "load")
      /\ Precedes(log[p], "set_rng_state", "load")
      /\ Precedes(log[p], "load", "construct")
      /\ ckpt_dir.given =>
           /\ Precedes(log[p], "assert", "torch_load")
           /\ Precedes(log[p], "torch_load", "construct")
           /\ Precedes(log[p], "construct", "load_state_dict")
           /\ Precedes(log[p], "load_state_dict", "model_to")
      /\ Precedes(log[p], "construct", "model_to")
      /\ Precedes(log[p], "model_to", "cache_to")
      /\ Precedes(log[p], "model_to", "load_return")
      /\ Precedes(log[p], "load_return", "generate")
      /\ Precedes(log[p], "generate", "report")
      /\ calls[p] > 0 =>
           /\ seed[p] = [torch |-> 1, xla |-> 1]
           /\ LoadReturned(p)
           /\ \A q \in Procs : calls[q] > 0 => seed[q] = seed[p]

C10_Witness ==
    \E p \in Procs :
      /\ pc[p] = "done" /\ ckpt_dir.given
      /\ Count(log[p], "cache_to") >= 2

====
